---- MODULE Spec2Model ----
(***************************************************************************)
(* GPS recording session of the Strive mobile client.                      *)
(*                                                                         *)
(* The model follows frontend/app/(tabs)/record.tsx (RecordScreen: the     *)
(* session controller and the foreground tracker) and                      *)
(* frontend/src/services/locationService.ts (the session store and the     *)
(* background location task).  Every async handler is cut at its awaits:   *)
(* one action per synchronous section, with the handler's position kept in *)
(* pc.  Time is counted in ticks, TicksPerSecond ticks to the second, so   *)
(* that Math.floor(ms / 1000) is a real rounding.  Coordinates are metres  *)
(* north / east of an origin, and calculateDistance is the small-distance  *)
(* limit of the Haversine formula on that plane, rounded down to a metre.  *)
(***************************************************************************)
EXTENDS Integers, Sequences, FiniteSets, TLC

(* ---------------------------------------------------------------- bounds *)

\* Model resolution of the clock: ticks per second.
TicksPerSecond == 2
\* The clock stops at MaxTime ticks.
MaxTime == 4
\* No point sequence (in memory or stored) grows beyond MaxPoints.
MaxPoints == 2
\* Fix latitudes are 0, 8, .., 8 * MaxLatSteps metres north.
MaxLatSteps == 1
\* Background task invocations that may be in flight at once.
MaxBgTasks == 1
\* Handlers of the controller that may be in flight (between awaits) at once.
MaxPending == 1
\* The same, for the user who taps on while a handler is still awaiting.
MaxOverlap == 2
\* The points of an outing long enough for a path with corners.
MaxPathPoints == 4
\* Background task invocations in flight at once when the platform delivers a
\* batch while the task is still awaiting the store for the batch before.
MaxBgOverlap == 2

(* ------------------------------------------------------------- constants *)

\* null (startTimeRef, accuracy, lastPauseTime, timerRef)
Null == -1
\* dist >= 5
MinMoveMeters == 5
\* accuracy < 30
MaxAccuracyMeters == 30
\* finalPoints.length < 2
MinSavePoints == 2
\* distance / 1000
MetersPerKm == 1000
\* The legs of the path walked in SpecPath, metres.
PathLegMeters == 100
\* duration / 3600
SecondsPerHour == 3600

FixLatitudes == {8 * i : i \in 0..MaxLatSteps}
FixLongitudes == {0}
FixAccuracies == {Null}
\* Fixes for the filter: 0 m, just under 5 m, 5 m and more apart; accuracy
\* unknown, just under 30 m and 30 m.
FilterLatitudes == {0, MinMoveMeters - 1, MinMoveMeters, 2 * MinMoveMeters - 1}
FilterAccuracies == {Null, MaxAccuracyMeters - 1, MaxAccuracyMeters}
BgIds == 1..MaxBgTasks
BgOverlapIds == 1..MaxBgOverlap
\* The corners of a square with sides of PathLegMeters.
PathLatitudes == {0, PathLegMeters}
PathLongitudes == {0, PathLegMeters}
\* The background fixes of the stream over time: one place, told apart by
\* their timestamps.
StreamLatitudes == {0}

VARIABLES
    \* ---- RecordScreen: React state and refs
    recordingState,       \* 'idle' | 'recording' | 'paused'
    gpsPoints,            \* useState<GPSPoint[]>
    distance,             \* useState(0), metres
    duration,             \* useState(0), seconds
    hasPermission,        \* useState(false)
    isSaving,             \* useState(false)
    startTimeRef,         \* useRef<Date | null>, ticks or Null
    pausedDurationRef,    \* useRef(0), seconds
    locationSubscription, \* the ref holds a subscription (TRUE) or null (FALSE)
    orphanSubscription,   \* a live subscription no ref holds any more
    timerRef,             \* Null, or the tick at which the interval fires next
    listenerLen,          \* gpsPoints.length in the AppState listener's closure
    alert,                \* the Alert dialog on screen
    closure,              \* gpsPoints / distance / duration seen by the Alert's buttons
    pc,                   \* position of each async handler
    recoverLocals,        \* checkExistingSession: session, <<>> or <<SessionData>>
    saveLocals,           \* saveActivity: backgroundPoints; the session record and
                          \* the tick when the save was requested (history)
    \* ---- locationService and the platform
    sessionData,          \* AsyncStorage[SESSION_STORAGE_KEY]: <<>> or <<SessionData>>
    storedPoints,         \* AsyncStorage[LOCATION_STORAGE_KEY]: <<>> when absent
    bgRegistered,         \* the background location task is registered
    bg,                   \* background task invocations in flight
    request,              \* the POST /activities in flight: <<>> or <<its body>>
    permFg,               \* the platform grants foreground location
    permBg,               \* the platform grants background location
    appState,             \* 'active' | 'background'
    now,                  \* the clock, in ticks
    \* ---- history
    bgAppended,           \* points the background task stored in the current suspension
    pausedAt,             \* the tick of the pause in progress, or Null
    lastPause,            \* <<>>, or the duration shown when the last pause began
                          \* and whether the interval has ticked since
    delivered,            \* the fix handed to the foreground callback in the step
                          \* just taken: <<>> or <<GPSPoint>>
    taskError,            \* the step just taken was an invocation of the background
                          \* task with an error
    \* ---- the user
    pendingLimit,         \* handlers the user's taps put in flight at once
    \* ---- the outing
    pointLimit            \* points the foreground tracker is given room for

vars == << recordingState, gpsPoints, distance, duration, hasPermission, isSaving,
           startTimeRef, pausedDurationRef, locationSubscription, orphanSubscription,
           timerRef, listenerLen, alert, closure, pc, saveLocals, sessionData,
           storedPoints, bgRegistered, bg, request, permFg, permBg, appState, now,
           bgAppended, pausedAt, lastPause, pendingLimit, recoverLocals, delivered, taskError,
           pointLimit >>

controllerVars == << recordingState, gpsPoints, distance, duration, hasPermission,
                     isSaving, startTimeRef, pausedDurationRef, locationSubscription,
                     orphanSubscription, timerRef, listenerLen, alert, closure,
                     saveLocals >>
storeVars == << sessionData, storedPoints, bgRegistered >>
envVars == << permFg, permBg, appState, now >>

(* ------------------------------------------------------- pure functions *)

\* Math.sqrt, rounded down to a whole metre
Sqrt(n) == CHOOSE r \in 0..n : r * r <= n /\ (r + 1) * (r + 1) > n

\* Math.floor(ms / 1000)
FloorSeconds(ticks) == ticks \div TicksPerSecond

calculateDistance_plusOne(lat1, lon1, lat2, lon2) ==
    Sqrt((lat2 - lat1) * (lat2 - lat1) + (lon2 - lon1) * (lon2 - lon1)) + 1

calculateDistance_toSecond(lat1, lon1, lat2, lon2) ==
    Sqrt(lat2 * lat2 + lon2 * lon2)

calculateDistance(lat1, lon1, lat2, lon2) ==
    Sqrt((lat2 - lat1) * (lat2 - lat1) + (lon2 - lon1) * (lon2 - lon1))

RECURSIVE calculateTotalDistance(_)
calculateTotalDistance(points) ==
    IF Len(points) < 2 THEN 0
    ELSE calculateTotalDistance(SubSeq(points, 1, Len(points) - 1))
         + calculateDistance(points[Len(points) - 1].latitude,
                             points[Len(points) - 1].longitude,
                             points[Len(points)].latitude,
                             points[Len(points)].longitude)

GPSPoint(lat, lon, acc, ts) ==
    [latitude |-> lat, longitude |-> lon, accuracy |-> acc, timestamp |-> ts]

AcceptFix_either(dist, accuracy) ==
    dist >= MinMoveMeters \/ (accuracy = Null \/ accuracy < MaxAccuracyMeters)

AcceptFix_unknownIsBad(dist, accuracy) ==
    dist >= MinMoveMeters /\ accuracy # Null /\ accuracy < MaxAccuracyMeters

\* dist >= 5 && (newPoint.accuracy === null || newPoint.accuracy < 30)
AcceptFix(dist, accuracy) ==
    dist >= MinMoveMeters /\ (accuracy = Null \/ accuracy < MaxAccuracyMeters)

\* calculateDistance(lastPoint, newPoint) of the setGpsPoints updater
DistanceFromLast(prev, newPoint) ==
    calculateDistance(prev[Len(prev)].latitude, prev[Len(prev)].longitude,
                      newPoint.latitude, newPoint.longitude)

UpdatedPoints_filteredFirst(prev, newPoint) ==
    IF AcceptFix(IF prev = <<>> THEN MinMoveMeters ELSE DistanceFromLast(prev, newPoint),
                 newPoint.accuracy)
    THEN Append(prev, newPoint)
    ELSE prev

\* The setGpsPoints updater: the first fix is taken as it is, a later one only
\* if it passes the filter.
UpdatedPoints(prev, newPoint) ==
    IF prev = <<>> THEN << newPoint >>
    ELSE IF AcceptFix(DistanceFromLast(prev, newPoint), newPoint.accuracy)
         THEN Append(prev, newPoint)
         ELSE prev

UpdatedDistance_always(prevDist, prev, newPoint) ==
    IF prev = <<>> THEN prevDist ELSE prevDist + DistanceFromLast(prev, newPoint)

UpdatedDistance_fromStart(prevDist, prev, newPoint) ==
    IF prev # <<>> /\ AcceptFix(DistanceFromLast(prev, newPoint), newPoint.accuracy)
    THEN DistanceFromLast(<< prev[1] >>, newPoint)
    ELSE prevDist

\* setDistance((prevDist) => prevDist + dist), called for an accepted later fix
UpdatedDistance(prevDist, prev, newPoint) ==
    IF prev # <<>> /\ AcceptFix(DistanceFromLast(prev, newPoint), newPoint.accuracy)
    THEN prevDist + DistanceFromLast(prev, newPoint)
    ELSE prevDist

InsufficientData_one(finalPoints) == Len(finalPoints) < 1

\* finalPoints.length < 2
InsufficientData(finalPoints) == Len(finalPoints) < MinSavePoints

(* ----------------------------------------------------------------- Init *)

IdlePc == [start |-> "idle", pause |-> "idle", resume |-> "idle", reset |-> "idle",
           save |-> "idle", sync |-> "idle", recover |-> "idle"]
NoClosure == [gpsPoints |-> <<>>, distance |-> 0, duration |-> 0]
NoSaveLocals == [backgroundPoints |-> <<>>, session |-> <<>>, stopTime |-> Null]
IdleBg == [pc |-> "idle", locations |-> <<>>, existingPoints |-> <<>>]

\* The screen as mounted on a fresh install: nothing in memory, nothing stored
\* (all but the invocations of the background task and the user's haste).
Launched ==
    /\ recordingState = "idle"
    /\ gpsPoints = <<>>
    /\ distance = 0
    /\ duration = 0
    /\ hasPermission = FALSE
    /\ isSaving = FALSE
    /\ startTimeRef = Null
    /\ pausedDurationRef = 0
    /\ locationSubscription = FALSE
    /\ orphanSubscription = FALSE
    /\ timerRef = Null
    /\ listenerLen = 0
    /\ alert = "none"
    /\ closure = NoClosure
    /\ pc = IdlePc
    /\ saveLocals = NoSaveLocals
    /\ sessionData = <<>>
    /\ storedPoints = <<>>
    /\ bgRegistered = FALSE
    /\ request = <<>>
    /\ permFg \in BOOLEAN
    /\ permBg \in BOOLEAN
    /\ appState = "active"
    /\ now = 0
    /\ bgAppended = 0
    /\ pausedAt = Null
    /\ lastPause = <<>>
    /\ delivered = <<>>
    /\ taskError = FALSE
    /\ recoverLocals = <<>>

\* One handler at a time: the user waits for each to finish.
Init ==
    /\ Launched
    /\ bg = [i \in BgIds |-> IdleBg]
    /\ pendingLimit = MaxPending
    /\ pointLimit = MaxPoints

\* The user taps on while a handler is still awaiting.
InitOverlap ==
    /\ Launched
    /\ bg = [i \in BgIds |-> IdleBg]
    /\ pendingLimit = MaxOverlap
    /\ pointLimit = MaxPoints

\* An outing of up to MaxPathPoints points.
InitPath ==
    /\ Launched
    /\ bg = [i \in BgIds |-> IdleBg]
    /\ pendingLimit = MaxPending
    /\ pointLimit = MaxPathPoints

\* The platform invokes the background task again while an invocation is
\* still awaiting.
InitBackground ==
    /\ Launched
    /\ bg = [i \in BgOverlapIds |-> IdleBg]
    /\ pendingLimit = MaxPending
    /\ pointLimit = MaxPoints

(* ------------------------------------------------- effects of a render *)

\* Timer effect, deps [recordingState]: a changed state clears the interval and,
\* when the new state is 'recording', sets a new one due in a second.
TimerEffect(newState, current) ==
    IF newState = recordingState THEN current
    ELSE IF newState = "recording" THEN now + TicksPerSecond
    ELSE Null

\* AppState listener effect, deps [recordingState]: the listener is re-created
\* only when the state changes, and closes over that render's gpsPoints.
ListenerEffect(newState, points) ==
    IF newState = recordingState THEN listenerLen ELSE Len(points)

\* The buttons answer only while the app is in front and no Alert is up.
CanPress == appState = "active" /\ alert = "none"

\* Handlers in flight; a new one is taken while fewer than pendingLimit are.
Pending ==
    Cardinality({h \in {"start", "pause", "resume", "reset", "save"} : pc[h] # "idle"})
CanBegin == Pending < pendingLimit

(* ----------------------------------------------------- requestPermissions *)

requestPermissions ==
    /\ appState = "active"
    /\ recordingState = "idle"
    /\ ~hasPermission
    /\ hasPermission' = permFg
    /\ delivered' = <<>>
    /\ taskError' = FALSE
    /\ UNCHANGED << recordingState, gpsPoints, distance, duration, isSaving,
                    startTimeRef, pausedDurationRef, locationSubscription,
                    orphanSubscription, timerRef, listenerLen, alert, closure, pc,
                    saveLocals, storeVars, bg, request, envVars, bgAppended,
                    pausedAt, lastPause,
                    pendingLimit, pointLimit, recoverLocals >>

(* ----------------------------------------------------- foreground tracker *)

\* watchPositionAsync resolved: the ref takes the new subscription; one it held
\* before stays live with nothing left to remove it.
Subscribed ==
    /\ orphanSubscription' = (orphanSubscription \/ locationSubscription)
    /\ locationSubscription' = TRUE

\* stopForegroundTracking
stopForegroundTracking == locationSubscription' = FALSE

\* The watchPositionAsync callback, for a fix of the location provider.
ForegroundFix(lat, lon, acc) ==
    /\ appState = "active"
    /\ locationSubscription \/ orphanSubscription
    /\ Len(gpsPoints) < pointLimit
    /\ LET newPoint == GPSPoint(lat, lon, acc, now)
       IN  /\ gpsPoints' = UpdatedPoints(gpsPoints, newPoint)
           /\ distance' = UpdatedDistance(distance, gpsPoints, newPoint)
    /\ delivered' = << GPSPoint(lat, lon, acc, now) >>
    /\ taskError' = FALSE
    /\ UNCHANGED << recordingState, duration, hasPermission, isSaving, startTimeRef,
                    pausedDurationRef, locationSubscription, orphanSubscription,
                    timerRef, listenerLen, alert, closure, pc, saveLocals, storeVars,
                    bg, request, envVars, bgAppended,
                    pausedAt, lastPause,
                    pendingLimit, pointLimit, recoverLocals >>

(* ------------------------------------------------------------ handleStart *)

\* handleStart up to its first await
handleStart ==
    /\ CanPress
    /\ recordingState = "idle"
    /\ hasPermission
    /\ pc.start = "idle" /\ CanBegin
    /\ recordingState' = "recording"
    /\ startTimeRef' = now
    /\ pausedDurationRef' = 0
    /\ gpsPoints' = <<>>
    /\ distance' = 0
    /\ duration' = 0
    /\ timerRef' = TimerEffect("recording", timerRef)
    /\ listenerLen' = ListenerEffect("recording", <<>>)
    /\ pc' = [pc EXCEPT !.start = "background"]
    /\ pausedAt' = Null
    /\ lastPause' = <<>>
    /\ delivered' = <<>>
    /\ taskError' = FALSE
    /\ UNCHANGED << hasPermission, isSaving, locationSubscription, orphanSubscription,
                    alert, closure, saveLocals, storeVars, bg, request, envVars,
                    bgAppended,
                    pendingLimit, pointLimit, recoverLocals >>

NewSession ==
    [isActive |-> TRUE, isPaused |-> FALSE, activityType |-> "running",
     startTime |-> now, pausedDuration |-> 0, lastPauseTime |-> Null]

\* locationService.startBackgroundTracking: false when the foreground permission
\* is refused; a refused background permission only warns.  startLocationUpdatesAsync
\* may or may not accept a registration without the background permission.
startBackgroundTracking(registers) ==
    IF ~permFg
    THEN UNCHANGED storeVars
    ELSE /\ sessionData' = <<NewSession>>
         /\ storedPoints' = <<>>
         /\ bgRegistered' = IF permBg THEN TRUE ELSE (registers \/ bgRegistered)

StartBackground ==
    /\ pc.start = "background"
    /\ \E registers \in BOOLEAN : startBackgroundTracking(registers)
    /\ pc' = [pc EXCEPT !.start = "foreground"]
    /\ delivered' = <<>>
    /\ taskError' = FALSE
    /\ UNCHANGED << controllerVars, bg, request, envVars, bgAppended,
                    pausedAt, lastPause,
                    pendingLimit, pointLimit, recoverLocals >>

\* startBackgroundTracking when a call inside its try block rejects: the write of
\* the session record, the removal of the points record, or the registration of
\* the task.  The catch returns false, and handleStart goes on.
StartBackgroundRejects(at) ==
    /\ pc.start = "background"
    /\ permFg
    /\ sessionData' = IF at = "session" THEN sessionData ELSE <<NewSession>>
    /\ storedPoints' = IF at = "updates" THEN <<>> ELSE storedPoints
    /\ bgRegistered' = bgRegistered
    /\ pc' = [pc EXCEPT !.start = "foreground"]
    /\ delivered' = <<>>
    /\ taskError' = FALSE
    /\ UNCHANGED << controllerVars, bg, request, envVars, bgAppended,
                    pausedAt, lastPause,
                    pendingLimit, pointLimit, recoverLocals >>

\* await startForegroundTracking() at the end of handleStart
StartForeground ==
    /\ pc.start = "foreground"
    /\ IF permFg THEN Subscribed
       ELSE UNCHANGED << locationSubscription, orphanSubscription >>
    /\ pc' = [pc EXCEPT !.start = "idle"]
    /\ delivered' = <<>>
    /\ taskError' = FALSE
    /\ UNCHANGED << recordingState, gpsPoints, distance, duration, hasPermission,
                    isSaving, startTimeRef, pausedDurationRef, timerRef, listenerLen,
                    alert, closure, saveLocals, storeVars, bg, request, envVars,
                    bgAppended,
                    pausedAt, lastPause,
                    pendingLimit, pointLimit, recoverLocals >>

(* ------------------------------------------------------------ handlePause *)

handlePause ==
    /\ CanPress
    /\ recordingState = "recording"
    /\ pc.pause = "idle" /\ CanBegin
    /\ recordingState' = "paused"
    /\ stopForegroundTracking
    /\ timerRef' = TimerEffect("paused", timerRef)
    /\ listenerLen' = ListenerEffect("paused", gpsPoints)
    /\ pc' = [pc EXCEPT !.pause = "store"]
    /\ pausedAt' = now
    /\ lastPause' = << [shown |-> duration, ticked |-> FALSE] >>
    /\ delivered' = <<>>
    /\ taskError' = FALSE
    /\ UNCHANGED << gpsPoints, distance, duration, hasPermission, isSaving,
                    startTimeRef, pausedDurationRef, orphanSubscription, alert,
                    closure, saveLocals, storeVars, bg, request, envVars, bgAppended,
                    pendingLimit, pointLimit, recoverLocals >>

\* locationService.pauseTracking
pauseTracking ==
    IF sessionData = <<>> THEN sessionData' = sessionData
    ELSE sessionData' = << [sessionData[1] EXCEPT !.isPaused = TRUE,
                                                  !.lastPauseTime = now] >>

PauseStore ==
    /\ pc.pause = "store"
    /\ pauseTracking
    /\ pc' = [pc EXCEPT !.pause = "idle"]
    /\ delivered' = <<>>
    /\ taskError' = FALSE
    /\ UNCHANGED << controllerVars, storedPoints, bgRegistered, bg, request, envVars,
                    bgAppended,
                    pausedAt, lastPause,
                    pendingLimit, pointLimit, recoverLocals >>

\* pauseTracking when the store rejects its read or its write: nothing catches,
\* and handlePause ends there.
PauseStoreRejects ==
    /\ pc.pause = "store"
    /\ pc' = [pc EXCEPT !.pause = "idle"]
    /\ delivered' = <<>>
    /\ taskError' = FALSE
    /\ UNCHANGED << controllerVars, storeVars, bg, request, envVars, bgAppended,
                    pausedAt, lastPause, pendingLimit, pointLimit, recoverLocals >>

(* ----------------------------------------------------------- handleResume *)

\* handleResume that leaves the accumulated paused duration as it was.
handleResume_keepsPaused ==
    /\ CanPress
    /\ recordingState = "paused"
    /\ pc.resume = "idle" /\ CanBegin
    /\ recordingState' = "recording"
    /\ pausedDurationRef' = pausedDurationRef
    /\ timerRef' = TimerEffect("recording", timerRef)
    /\ listenerLen' = ListenerEffect("recording", gpsPoints)
    /\ pc' = [pc EXCEPT !.resume = "store"]
    /\ delivered' = <<>>
    /\ taskError' = FALSE
    /\ UNCHANGED << gpsPoints, distance, duration, hasPermission, isSaving,
                    startTimeRef, locationSubscription, orphanSubscription, alert,
                    closure, saveLocals, storeVars, bg, request, envVars, bgAppended,
                    pausedAt, lastPause,
                    pendingLimit, pointLimit, recoverLocals >>

handleResume ==
    /\ CanPress
    /\ recordingState = "paused"
    /\ pc.resume = "idle" /\ CanBegin
    /\ recordingState' = "recording"
    /\ pausedDurationRef' =
          IF startTimeRef # Null
          THEN FloorSeconds(now - startTimeRef) - duration
          ELSE pausedDurationRef
    /\ timerRef' = TimerEffect("recording", timerRef)
    /\ listenerLen' = ListenerEffect("recording", gpsPoints)
    /\ pc' = [pc EXCEPT !.resume = "store"]
    /\ delivered' = <<>>
    /\ taskError' = FALSE
    /\ UNCHANGED << gpsPoints, distance, duration, hasPermission, isSaving,
                    startTimeRef, locationSubscription, orphanSubscription, alert,
                    closure, saveLocals, storeVars, bg, request, envVars, bgAppended,
                    pausedAt, lastPause,
                    pendingLimit, pointLimit, recoverLocals >>

resumeTracking_roundsUp ==
    IF sessionData = <<>> THEN sessionData' = sessionData
    ELSE LET s == sessionData[1]
             paused == IF s.lastPauseTime # Null
                       THEN s.pausedDuration
                            + FloorSeconds(now - s.lastPauseTime + TicksPerSecond - 1)
                       ELSE s.pausedDuration
         IN  sessionData' = << [s EXCEPT !.pausedDuration = paused,
                                         !.isPaused = FALSE,
                                         !.lastPauseTime = Null] >>

\* locationService.resumeTracking
resumeTracking ==
    IF sessionData = <<>> THEN sessionData' = sessionData
    ELSE LET s == sessionData[1]
             paused == IF s.lastPauseTime # Null
                       THEN s.pausedDuration + FloorSeconds(now - s.lastPauseTime)
                       ELSE s.pausedDuration
         IN  sessionData' = << [s EXCEPT !.pausedDuration = paused,
                                         !.isPaused = FALSE,
                                         !.lastPauseTime = Null] >>

ResumeStore ==
    /\ pc.resume = "store"
    /\ resumeTracking
    /\ pc' = [pc EXCEPT !.resume = "foreground"]
    /\ pausedAt' = Null
    /\ lastPause' = lastPause
    /\ delivered' = <<>>
    /\ taskError' = FALSE
    /\ UNCHANGED << controllerVars, storedPoints, bgRegistered, bg, request, envVars,
                    bgAppended,
                    pendingLimit, pointLimit, recoverLocals >>

\* resumeTracking when the store rejects its read or its write: nothing catches,
\* and handleResume ends there, before startForegroundTracking.
ResumeStoreRejects ==
    /\ pc.resume = "store"
    /\ pc' = [pc EXCEPT !.resume = "idle"]
    /\ delivered' = <<>>
    /\ taskError' = FALSE
    /\ UNCHANGED << controllerVars, storeVars, bg, request, envVars, bgAppended,
                    pausedAt, lastPause, pendingLimit, pointLimit, recoverLocals >>

ResumeForeground ==
    /\ pc.resume = "foreground"
    /\ IF permFg THEN Subscribed
       ELSE UNCHANGED << locationSubscription, orphanSubscription >>
    /\ pc' = [pc EXCEPT !.resume = "idle"]
    /\ delivered' = <<>>
    /\ taskError' = FALSE
    /\ UNCHANGED << recordingState, gpsPoints, distance, duration, hasPermission,
                    isSaving, startTimeRef, pausedDurationRef, timerRef, listenerLen,
                    alert, closure, saveLocals, storeVars, bg, request, envVars,
                    bgAppended,
                    pausedAt, lastPause,
                    pendingLimit, pointLimit, recoverLocals >>

(* ------------------------------------------------- handleStop, the Alert *)

\* handleStop: the stop button is rendered only while paused, disabled while
\* saving.  The Alert's buttons keep this render's resetRecording / saveActivity.
handleStop ==
    /\ CanPress
    /\ recordingState = "paused"
    /\ ~isSaving
    /\ pc.save = "idle" /\ pc.reset = "idle" /\ CanBegin
    /\ alert' = "stop"
    /\ closure' = [gpsPoints |-> gpsPoints, distance |-> distance,
                   duration |-> duration]
    /\ delivered' = <<>>
    /\ taskError' = FALSE
    /\ UNCHANGED << recordingState, gpsPoints, distance, duration, hasPermission,
                    isSaving, startTimeRef, pausedDurationRef, locationSubscription,
                    orphanSubscription, timerRef, listenerLen, pc, saveLocals,
                    storeVars, bg, request, envVars, bgAppended,
                    pausedAt, lastPause,
                    pendingLimit, pointLimit, recoverLocals >>

\* 'Annuler', and the single button of the two 'Erreur' alerts
AlertDismiss ==
    /\ appState = "active"
    /\ alert \in {"stop", "insufficient", "saveFailed"}
    /\ alert' = "none"
    /\ closure' = NoClosure
    /\ delivered' = <<>>
    /\ taskError' = FALSE
    /\ UNCHANGED << recordingState, gpsPoints, distance, duration, hasPermission,
                    isSaving, startTimeRef, pausedDurationRef, locationSubscription,
                    orphanSubscription, timerRef, listenerLen, pc, saveLocals,
                    storeVars, bg, request, envVars, bgAppended,
                    pausedAt, lastPause,
                    pendingLimit, pointLimit, recoverLocals >>

(* --------------------------------------------------------- resetRecording *)

\* locationService.stopBackgroundTracking, first half: the task is unregistered,
\* the stored points are read and their record removed.
stopBackgroundTrackingPoints ==
    /\ bgRegistered' = FALSE
    /\ storedPoints' = <<>>
    /\ sessionData' = sessionData

stopBackgroundTrackingSession_kept ==
    UNCHANGED << sessionData, storedPoints, bgRegistered >>

\* locationService.stopBackgroundTracking, second half: the session record is removed.
stopBackgroundTrackingSession ==
    /\ sessionData' = <<>>
    /\ UNCHANGED << storedPoints, bgRegistered >>

\* 'Supprimer': resetRecording up to its first await (cleanupTracking)
AlertDiscard ==
    /\ appState = "active"
    /\ alert = "stop"
    /\ alert' = "none"
    /\ stopForegroundTracking
    /\ timerRef' = Null
    /\ pc' = [pc EXCEPT !.reset = "stopPoints"]
    /\ closure' = NoClosure
    /\ delivered' = <<>>
    /\ taskError' = FALSE
    /\ UNCHANGED << recordingState, gpsPoints, distance, duration, hasPermission,
                    isSaving, startTimeRef, pausedDurationRef, orphanSubscription,
                    listenerLen, saveLocals, storeVars, bg, request, envVars,
                    bgAppended,
                    pausedAt, lastPause,
                    pendingLimit, pointLimit, recoverLocals >>

ResetStopPoints ==
    /\ pc.reset = "stopPoints"
    /\ stopBackgroundTrackingPoints
    /\ pc' = [pc EXCEPT !.reset = "stopSession"]
    /\ delivered' = <<>>
    /\ taskError' = FALSE
    /\ UNCHANGED << controllerVars, bg, request, envVars, bgAppended,
                    pausedAt, lastPause,
                    pendingLimit, pointLimit, recoverLocals >>

\* the end of stopBackgroundTracking and the rest of resetRecording
ResetDone ==
    /\ pc.reset = "stopSession"
    /\ stopBackgroundTrackingSession
    /\ recordingState' = "idle"
    /\ gpsPoints' = <<>>
    /\ distance' = 0
    /\ duration' = 0
    /\ startTimeRef' = Null
    /\ pausedDurationRef' = 0
    /\ timerRef' = TimerEffect("idle", timerRef)
    /\ listenerLen' = ListenerEffect("idle", <<>>)
    /\ pc' = [pc EXCEPT !.reset = "idle"]
    /\ pausedAt' = Null
    /\ lastPause' = <<>>
    /\ delivered' = <<>>
    /\ taskError' = FALSE
    /\ UNCHANGED << hasPermission, isSaving, locationSubscription, orphanSubscription,
                    alert, closure, saveLocals, bg, request, envVars, bgAppended,
                    pendingLimit, pointLimit, recoverLocals >>

(* ----------------------------------------------------------- saveActivity *)

\* 'Sauvegarder': saveActivity up to its first await (cleanupTracking)
AlertSave ==
    /\ appState = "active"
    /\ alert = "stop"
    /\ alert' = "none"
    /\ stopForegroundTracking
    /\ timerRef' = Null
    /\ saveLocals' = [backgroundPoints |-> <<>>, session |-> sessionData,
                      stopTime |-> now]
    /\ pc' = [pc EXCEPT !.save = "stopPoints"]
    /\ delivered' = <<>>
    /\ taskError' = FALSE
    /\ UNCHANGED << recordingState, gpsPoints, distance, duration, hasPermission,
                    isSaving, startTimeRef, pausedDurationRef, orphanSubscription,
                    listenerLen, closure, storeVars, bg, request, envVars, bgAppended,
                    pausedAt, lastPause,
                    pendingLimit, pointLimit, recoverLocals >>

SaveStopPoints ==
    /\ pc.save = "stopPoints"
    /\ saveLocals' = [saveLocals EXCEPT !.backgroundPoints = storedPoints]
    /\ stopBackgroundTrackingPoints
    /\ pc' = [pc EXCEPT !.save = "stopSession"]
    /\ delivered' = <<>>
    /\ taskError' = FALSE
    /\ UNCHANGED << recordingState, gpsPoints, distance, duration, hasPermission,
                    isSaving, startTimeRef, pausedDurationRef, locationSubscription,
                    orphanSubscription, timerRef, listenerLen, alert, closure, bg,
                    request, envVars, bgAppended,
                    pausedAt, lastPause,
                    pendingLimit, pointLimit, recoverLocals >>

\* finalPoints: the closure's gpsPoints unless the stored sequence is longer
FinalPoints(memory, backgroundPoints) ==
    IF Len(backgroundPoints) > Len(memory) THEN backgroundPoints ELSE memory

AvgSpeed_unguarded(meters, seconds) ==
    [num |-> meters * SecondsPerHour, den |-> seconds * MetersPerKm]

\* avgSpeed = duration > 0 ? (distance / 1000) / (duration / 3600) : 0, in km/h,
\* kept as the quotient num / den.
AvgSpeed(meters, seconds) ==
    IF seconds > 0
    THEN [num |-> meters * SecondsPerHour, den |-> seconds * MetersPerKm]
    ELSE [num |-> 0, den |-> 1]

\* activityData
ActivityData(finalPoints) ==
    [gps_points |-> finalPoints, distance |-> closure.distance,
     duration |-> closure.duration,
     avg_speed |-> AvgSpeed(closure.distance, closure.duration),
     start_time |-> startTimeRef, end_time |-> now]

\* stopBackgroundTracking returned: either the 'Erreur' alert and resetRecording()
\* up to its first await, or the body is handed to api.post.
SaveDecide ==
    /\ pc.save = "stopSession"
    /\ stopBackgroundTrackingSession
    /\ LET finalPoints == FinalPoints(closure.gpsPoints, saveLocals.backgroundPoints)
       IN  IF InsufficientData(finalPoints)
           THEN /\ alert' = "insufficient"
                /\ stopForegroundTracking
                /\ timerRef' = Null
                /\ pc' = [pc EXCEPT !.save = "idle", !.reset = "stopPoints"]
                /\ saveLocals' = NoSaveLocals
                /\ closure' = NoClosure
                /\ UNCHANGED << isSaving, request >>
           ELSE /\ isSaving' = TRUE
                /\ request' = << ActivityData(finalPoints) >>
                /\ pc' = [pc EXCEPT !.save = "post"]
                /\ UNCHANGED << alert, locationSubscription, timerRef, saveLocals,
                                closure >>
    /\ delivered' = <<>>
    /\ taskError' = FALSE
    /\ UNCHANGED << recordingState, gpsPoints, distance, duration, hasPermission,
                    startTimeRef, pausedDurationRef, orphanSubscription, listenerLen,
                    bg, envVars, bgAppended,
                    pausedAt, lastPause,
                    pendingLimit, pointLimit, recoverLocals >>

\* api.post resolved or rejected; finally setIsSaving(false)
PostDone(ok) ==
    /\ pc.save = "post"
    /\ alert' = IF ok THEN "success" ELSE "saveFailed"
    /\ isSaving' = FALSE
    /\ saveLocals' = NoSaveLocals
    /\ closure' = NoClosure
    /\ request' = <<>>
    /\ pc' = [pc EXCEPT !.save = "idle"]
    /\ delivered' = <<>>
    /\ taskError' = FALSE
    /\ UNCHANGED << recordingState, gpsPoints, distance, duration, hasPermission,
                    startTimeRef, pausedDurationRef, locationSubscription,
                    orphanSubscription, timerRef, listenerLen, storeVars, bg,
                    envVars, bgAppended,
                    pausedAt, lastPause,
                    pendingLimit, pointLimit, recoverLocals >>

\* 'Voir' of the 'Succès' alert
AlertVoir ==
    /\ appState = "active"
    /\ alert = "success"
    /\ alert' = "none"
    /\ recordingState' = "idle"
    /\ gpsPoints' = <<>>
    /\ distance' = 0
    /\ duration' = 0
    /\ startTimeRef' = Null
    /\ pausedDurationRef' = 0
    /\ timerRef' = TimerEffect("idle", timerRef)
    /\ listenerLen' = ListenerEffect("idle", <<>>)
    /\ pausedAt' = Null
    /\ lastPause' = <<>>
    /\ delivered' = <<>>
    /\ taskError' = FALSE
    /\ UNCHANGED << hasPermission, isSaving, locationSubscription, orphanSubscription,
                    closure, pc, saveLocals, storeVars, bg, request, envVars,
                    bgAppended,
                    pendingLimit, pointLimit, recoverLocals >>

(* ------------------------------------------- relaunch, checkExistingSession *)

\* The app is killed and launched again: the screen mounts with fresh state and
\* refs, the handlers, the Alert and the request of the old process are gone; the
\* store and the registered background task outlive it.  The mount effect calls
\* checkExistingSession.
Relaunch ==
    /\ pc.recover = "idle"
    /\ recordingState' = "idle"
    /\ gpsPoints' = <<>>
    /\ distance' = 0
    /\ duration' = 0
    /\ hasPermission' = FALSE
    /\ isSaving' = FALSE
    /\ startTimeRef' = Null
    /\ pausedDurationRef' = 0
    /\ locationSubscription' = FALSE
    /\ orphanSubscription' = FALSE
    /\ timerRef' = Null
    /\ listenerLen' = 0
    /\ alert' = "none"
    /\ closure' = NoClosure
    /\ pc' = [IdlePc EXCEPT !.recover = "session"]
    /\ saveLocals' = NoSaveLocals
    /\ recoverLocals' = <<>>
    /\ request' = <<>>
    /\ appState' = "active"
    /\ bgAppended' = 0
    /\ pausedAt' = Null
    /\ lastPause' = <<>>
    /\ delivered' = <<>>
    /\ taskError' = FALSE
    /\ UNCHANGED << storeVars, bg, permFg, permBg, now, pendingLimit, pointLimit >>

\* const session = await locationService.getSessionData(); if (session?.isActive)
RecoverSession ==
    /\ pc.recover = "session"
    /\ IF sessionData # <<>> /\ sessionData[1].isActive
       THEN /\ recoverLocals' = sessionData
            /\ pc' = [pc EXCEPT !.recover = "points"]
       ELSE /\ recoverLocals' = <<>>
            /\ pc' = [pc EXCEPT !.recover = "idle"]
    /\ delivered' = <<>>
    /\ taskError' = FALSE
    /\ UNCHANGED << controllerVars, saveLocals, storeVars, bg, request, envVars,
                    bgAppended, pausedAt, lastPause, pendingLimit, pointLimit >>

\* const points = await locationService.getCollectedPoints(); the session is
\* restored only if (points.length > 0)
RecoverPoints ==
    /\ pc.recover = "points"
    /\ LET session == recoverLocals[1]
           points == storedPoints
           state == IF session.isPaused THEN "paused" ELSE "recording"
       IN  IF Len(points) > 0
           THEN /\ gpsPoints' = points
                /\ distance' = calculateTotalDistance(points)
                /\ startTimeRef' = IF session.startTime # Null
                                   THEN session.startTime ELSE startTimeRef
                /\ pausedDurationRef' = IF session.startTime # Null
                                        THEN session.pausedDuration
                                        ELSE pausedDurationRef
                /\ recordingState' = state
                /\ timerRef' = TimerEffect(state, timerRef)
                /\ listenerLen' = ListenerEffect(state, points)
                /\ pc' = [pc EXCEPT !.recover = IF session.isPaused THEN "idle"
                                                 ELSE "foreground"]
           ELSE /\ pc' = [pc EXCEPT !.recover = "idle"]
                /\ UNCHANGED << gpsPoints, distance, startTimeRef, pausedDurationRef,
                                recordingState, timerRef, listenerLen >>
    /\ recoverLocals' = <<>>
    /\ delivered' = <<>>
    /\ taskError' = FALSE
    /\ UNCHANGED << duration, hasPermission, isSaving, locationSubscription,
                    orphanSubscription, alert, closure, saveLocals, storeVars, bg,
                    request, envVars, bgAppended, pausedAt, lastPause, pendingLimit, pointLimit >>

\* await startForegroundTracking() at the end of checkExistingSession
RecoverForeground ==
    /\ pc.recover = "foreground"
    /\ IF permFg THEN Subscribed
       ELSE UNCHANGED << locationSubscription, orphanSubscription >>
    /\ pc' = [pc EXCEPT !.recover = "idle"]
    /\ delivered' = <<>>
    /\ taskError' = FALSE
    /\ UNCHANGED << recordingState, gpsPoints, distance, duration, hasPermission,
                    isSaving, startTimeRef, pausedDurationRef, timerRef, listenerLen,
                    alert, closure, saveLocals, storeVars, bg, request, envVars,
                    bgAppended, pausedAt, lastPause, pendingLimit, pointLimit, recoverLocals >>

(* --------------------------------------------------- background location task *)

BackgroundError_stopsSession(i) ==
    /\ bgRegistered
    /\ bg[i].pc = "idle"
    /\ taskError' = TRUE
    /\ delivered' = <<>>
    /\ sessionData' = <<>>
    /\ UNCHANGED << controllerVars, pc, storedPoints, bgRegistered, bg, request,
                    envVars, bgAppended, pausedAt, lastPause,
                    pendingLimit, pointLimit, recoverLocals >>

\* The task is invoked with an error: it logs and returns.
BackgroundError(i) ==
    /\ bgRegistered
    /\ bg[i].pc = "idle"
    /\ taskError' = TRUE
    /\ delivered' = <<>>
    /\ UNCHANGED << controllerVars, pc, storeVars, bg, request, envVars, bgAppended,
                    pausedAt, lastPause, pendingLimit, pointLimit, recoverLocals >>

\* The task is invoked with one location; it reads the session record and goes
\* on only for an active session that is not paused.
BackgroundTask(i, lat, lon, acc) ==
    /\ bgRegistered
    /\ bg[i].pc = "idle"
    /\ Len(storedPoints) < MaxPoints
    /\ IF sessionData # <<>> /\ sessionData[1].isActive /\ ~sessionData[1].isPaused
       THEN bg' = [bg EXCEPT ![i] = [pc |-> "points",
                                     locations |-> << GPSPoint(lat, lon, acc, now) >>,
                                     existingPoints |-> <<>>]]
       ELSE bg' = bg
    /\ delivered' = <<>>
    /\ taskError' = FALSE
    /\ UNCHANGED << controllerVars, pc, storeVars, request, envVars, bgAppended,
                    pausedAt, lastPause,
                    pendingLimit, pointLimit, recoverLocals >>

\* const existingStr = await AsyncStorage.getItem(LOCATION_STORAGE_KEY)
BackgroundRead(i) ==
    /\ bg[i].pc = "points"
    /\ Len(storedPoints) < MaxPoints
    /\ bg' = [bg EXCEPT ![i].pc = "write", ![i].existingPoints = storedPoints]
    /\ delivered' = <<>>
    /\ taskError' = FALSE
    /\ UNCHANGED << controllerVars, pc, storeVars, request, envVars, bgAppended,
                    pausedAt, lastPause,
                    pendingLimit, pointLimit, recoverLocals >>

\* await AsyncStorage.setItem(LOCATION_STORAGE_KEY, [...existingPoints, ...newPoints])
BackgroundWrite(i) ==
    /\ bg[i].pc = "write"
    /\ storedPoints' = bg[i].existingPoints \o bg[i].locations
    /\ bgAppended' = IF appState = "background"
                     THEN bgAppended + Len(bg[i].locations) ELSE bgAppended
    /\ bg' = [bg EXCEPT ![i] = IdleBg]
    /\ delivered' = <<>>
    /\ taskError' = FALSE
    /\ UNCHANGED << controllerVars, pc, sessionData, bgRegistered, request, envVars, pausedAt,
                    lastPause,
                    pendingLimit, pointLimit, recoverLocals >>

(* ------------------------------------------------------ AppState listener *)

GoBackground ==
    /\ appState = "active"
    /\ pc.sync = "idle"
    /\ appState' = "background"
    /\ bgAppended' = 0
    /\ delivered' = <<>>
    /\ taskError' = FALSE
    /\ UNCHANGED << controllerVars, pc, storeVars, bg, request, permFg, permBg, now, pausedAt,
                    lastPause,
                    pendingLimit, pointLimit, recoverLocals >>

\* 'change' to 'active' after 'background': the listener of the last render that
\* changed recordingState calls syncBackgroundPoints while recording or paused.
GoForeground ==
    /\ appState = "background"
    /\ pc.sync = "idle"
    /\ appState' = "active"
    /\ IF recordingState \in {"recording", "paused"}
       THEN pc' = [pc EXCEPT !.sync = "read"] /\ bgAppended' = bgAppended
       ELSE pc' = pc /\ bgAppended' = 0
    /\ delivered' = <<>>
    /\ taskError' = FALSE
    /\ UNCHANGED << controllerVars, storeVars, bg, request, permFg, permBg, now, pausedAt,
                    lastPause,
                    pendingLimit, pointLimit, recoverLocals >>

\* syncBackgroundPoints after await locationService.getCollectedPoints()
syncBackgroundPoints ==
    /\ pc.sync = "read"
    /\ LET points == storedPoints
       IN  IF Len(points) > listenerLen
           THEN gpsPoints' = points /\ distance' = calculateTotalDistance(points)
           ELSE gpsPoints' = gpsPoints /\ distance' = distance
    /\ pc' = [pc EXCEPT !.sync = "idle"]
    /\ bgAppended' = 0
    /\ delivered' = <<>>
    /\ taskError' = FALSE
    /\ UNCHANGED << recordingState, duration, hasPermission, isSaving, startTimeRef,
                    pausedDurationRef, locationSubscription, orphanSubscription,
                    timerRef, listenerLen, alert, closure, saveLocals, storeVars, bg,
                    request, envVars, pausedAt, lastPause,
                    pendingLimit, pointLimit, recoverLocals >>

(* ------------------------------------------------------------ timer, clock *)

TimerTick_ignoresPause ==
    /\ appState = "active"
    /\ timerRef # Null
    /\ now >= timerRef
    /\ duration' = IF startTimeRef # Null
                   THEN FloorSeconds(now - startTimeRef)
                   ELSE duration
    /\ timerRef' = now + TicksPerSecond
    /\ delivered' = <<>>
    /\ taskError' = FALSE
    /\ lastPause' = IF lastPause = <<>> THEN <<>>
                    ELSE << [lastPause[1] EXCEPT !.ticked = TRUE] >>
    /\ UNCHANGED << recordingState, gpsPoints, distance, hasPermission, isSaving,
                    startTimeRef, pausedDurationRef, locationSubscription,
                    orphanSubscription, listenerLen, alert, closure, pc, saveLocals,
                    storeVars, bg, request, envVars, bgAppended, pausedAt,
                    pendingLimit, pointLimit, recoverLocals >>

\* The setInterval callback of the timer effect.
TimerTick ==
    /\ appState = "active"
    /\ timerRef # Null
    /\ now >= timerRef
    /\ duration' = IF startTimeRef # Null
                   THEN FloorSeconds(now - startTimeRef) - pausedDurationRef
                   ELSE duration
    /\ timerRef' = now + TicksPerSecond
    /\ delivered' = <<>>
    /\ taskError' = FALSE
    /\ lastPause' = IF lastPause = <<>> THEN <<>>
                    ELSE << [lastPause[1] EXCEPT !.ticked = TRUE] >>
    /\ UNCHANGED << recordingState, gpsPoints, distance, hasPermission, isSaving,
                    startTimeRef, pausedDurationRef, locationSubscription,
                    orphanSubscription, listenerLen, alert, closure, pc, saveLocals,
                    storeVars, bg, request, envVars, bgAppended, pausedAt,
                    pendingLimit, pointLimit, recoverLocals >>

\* Time passes; in front, an interval that is due fires before the clock moves on.
Advance ==
    /\ now < MaxTime
    /\ appState = "background" \/ timerRef = Null \/ now < timerRef
    /\ now' = now + 1
    /\ delivered' = <<>>
    /\ taskError' = FALSE
    /\ UNCHANGED << controllerVars, pc, storeVars, bg, request, permFg, permBg,
                    appState, bgAppended,
                    pausedAt, lastPause,
                    pendingLimit, pointLimit, recoverLocals >>

\* The user changes the app's location permissions in the system settings.
SystemSettings(fg, background) ==
    /\ appState = "background"
    /\ recordingState = "idle"
    /\ permFg' = fg
    /\ permBg' = background
    /\ delivered' = <<>>
    /\ taskError' = FALSE
    /\ UNCHANGED << controllerVars, pc, storeVars, bg, request, appState, now,
                    bgAppended,
                    pausedAt, lastPause,
                    pendingLimit, pointLimit, recoverLocals >>

(* ------------------------------------------------------- specifications *)

\* Spec: the session, its store, the background task and the app's trips to the
\* background, all within one tick of the clock.
Next ==
    \/ requestPermissions
    \/ \E lat \in FixLatitudes, lon \in FixLongitudes, acc \in FixAccuracies :
          ForegroundFix(lat, lon, acc)
    \/ handleStart
    \/ StartBackground
    \/ StartForeground
    \/ handlePause
    \/ PauseStore
    \/ handleResume
    \/ ResumeStore
    \/ ResumeForeground
    \/ handleStop
    \/ AlertDismiss
    \/ AlertDiscard
    \/ ResetStopPoints
    \/ ResetDone
    \/ AlertSave
    \/ SaveStopPoints
    \/ SaveDecide
    \/ \E ok \in BOOLEAN : PostDone(ok)
    \/ AlertVoir
    \/ \E i \in BgIds, lat \in FixLatitudes, lon \in FixLongitudes,
          acc \in FixAccuracies : BackgroundTask(i, lat, lon, acc)
    \/ \E i \in BgIds : BackgroundRead(i)
    \/ \E i \in BgIds : BackgroundWrite(i)
    \/ GoBackground
    \/ GoForeground
    \/ syncBackgroundPoints
    \/ \E fg \in BOOLEAN, background \in BOOLEAN : SystemSettings(fg, background)
    \/ Relaunch
    \/ RecoverSession
    \/ RecoverPoints
    \/ RecoverForeground

Spec == Init /\ [][Next]_vars

\* SpecClock: the session over time (the clock, the 1-second interval), with the
\* app in front throughout.
NextClock ==
    \/ requestPermissions
    \/ \E lat \in FixLatitudes, lon \in FixLongitudes, acc \in FixAccuracies :
          ForegroundFix(lat, lon, acc)
    \/ handleStart
    \/ StartBackground
    \/ StartForeground
    \/ handlePause
    \/ PauseStore
    \/ handleResume
    \/ ResumeStore
    \/ ResumeForeground
    \/ handleStop
    \/ AlertDismiss
    \/ AlertDiscard
    \/ ResetStopPoints
    \/ ResetDone
    \/ AlertSave
    \/ SaveStopPoints
    \/ SaveDecide
    \/ \E ok \in BOOLEAN : PostDone(ok)
    \/ AlertVoir
    \/ TimerTick
    \/ Advance

SpecClock == Init /\ [][NextClock]_vars

\* SpecOverlap: the controller and the foreground tracker under a user who taps
\* on while a handler is still awaiting (the buttons are not disabled meanwhile),
\* with the app in front and within one tick of the clock.
NextOverlap ==
    \/ requestPermissions
    \/ \E lat \in FixLatitudes, lon \in FixLongitudes, acc \in FixAccuracies :
          ForegroundFix(lat, lon, acc)
    \/ handleStart
    \/ StartBackground
    \/ StartForeground
    \/ handlePause
    \/ PauseStore
    \/ handleResume
    \/ ResumeStore
    \/ ResumeForeground
    \/ handleStop
    \/ AlertDismiss
    \/ AlertDiscard
    \/ ResetStopPoints
    \/ ResetDone
    \/ AlertSave
    \/ SaveStopPoints
    \/ SaveDecide
    \/ \E ok \in BOOLEAN : PostDone(ok)
    \/ AlertVoir

SpecOverlap == InitOverlap /\ [][NextOverlap]_vars

\* SpecFilter: a started session whose foreground tracker is given fixes at
\* every distance and with every accuracy the filter tells apart.
NextFilter ==
    \/ requestPermissions
    \/ handleStart
    \/ StartBackground
    \/ StartForeground
    \/ \E lat \in FilterLatitudes, lon \in FixLongitudes, acc \in FilterAccuracies :
          ForegroundFix(lat, lon, acc)

SpecFilter == Init /\ [][NextFilter]_vars

\* SpecBackground: a session whose background task is invoked for a new batch
\* while an earlier invocation is still between its reads and its write; the
\* controller starts, pauses, resumes and discards meanwhile, one handler at a
\* time, within one tick of the clock.
NextBackground ==
    \/ requestPermissions
    \/ handleStart
    \/ StartBackground
    \/ StartForeground
    \/ handlePause
    \/ PauseStore
    \/ handleResume
    \/ ResumeStore
    \/ ResumeForeground
    \/ handleStop
    \/ AlertDismiss
    \/ AlertDiscard
    \/ ResetStopPoints
    \/ ResetDone
    \/ \E i \in BgOverlapIds, lat \in FixLatitudes, lon \in FixLongitudes,
          acc \in FixAccuracies : BackgroundTask(i, lat, lon, acc)
    \/ \E i \in BgOverlapIds : BackgroundRead(i)
    \/ \E i \in BgOverlapIds : BackgroundWrite(i)
    \/ \E i \in BgOverlapIds : BackgroundError(i)

SpecBackground == InitBackground /\ [][NextBackground]_vars

\* SpecStream: a recording session over time, fed by overlapping invocations of
\* the background task, with the sync of the points into memory on each return
\* to the foreground.
NextStream ==
    \/ requestPermissions
    \/ handleStart
    \/ StartBackground
    \/ StartForeground
    \/ \E i \in BgOverlapIds, lat \in StreamLatitudes, lon \in FixLongitudes,
          acc \in FixAccuracies : BackgroundTask(i, lat, lon, acc)
    \/ \E i \in BgOverlapIds : BackgroundRead(i)
    \/ \E i \in BgOverlapIds : BackgroundWrite(i)
    \/ GoBackground
    \/ GoForeground
    \/ syncBackgroundPoints
    \/ TimerTick
    \/ Advance

SpecStream == InitBackground /\ [][NextStream]_vars

\* SpecPath: a started session whose foreground tracker is given fixes at the
\* corners of a square, for as many as MaxPathPoints points.
NextPath ==
    \/ requestPermissions
    \/ handleStart
    \/ StartBackground
    \/ StartForeground
    \/ \E lat \in PathLatitudes, lon \in PathLongitudes, acc \in FixAccuracies :
          ForegroundFix(lat, lon, acc)

SpecPath == InitPath /\ [][NextPath]_vars

\* SpecFailure: the controller and the foreground tracker when a call to the
\* store or to the platform's location updates may reject; one handler at a
\* time, the app in front, within one tick of the clock.
RejectPoints == {"session", "points", "updates"}

NextFailure ==
    \/ requestPermissions
    \/ \E lat \in FixLatitudes, lon \in FixLongitudes, acc \in FixAccuracies :
          ForegroundFix(lat, lon, acc)
    \/ handleStart
    \/ StartBackground
    \/ \E at \in RejectPoints : StartBackgroundRejects(at)
    \/ StartForeground
    \/ handlePause
    \/ PauseStore
    \/ PauseStoreRejects
    \/ handleResume
    \/ ResumeStore
    \/ ResumeStoreRejects
    \/ ResumeForeground
    \/ handleStop
    \/ AlertDismiss
    \/ AlertDiscard
    \/ ResetStopPoints
    \/ ResetDone

SpecFailure == Init /\ [][NextFailure]_vars

(* ---------------------------------------------------------------- claims *)

\* Steps of the handlers the claims speak of.
\* (A relaunch ends every handler of the old process without completing it.)
Relaunched == pc.recover = "idle" /\ pc'.recover = "session"
SyncStep == pc.sync = "read" /\ pc'.sync = "idle" /\ ~Relaunched
InsufficientStep == pc.save = "stopSession" /\ pc'.save = "idle" /\ ~Relaunched
PostRejectedStep == pc.save = "post" /\ alert' = "saveFailed"
ResetDoneStep == pc.reset = "stopSession" /\ pc'.reset = "idle" /\ ~Relaunched
StartDoneStep == pc.start = "foreground" /\ pc'.start = "idle" /\ ~Relaunched
ResumePressStep == pc.resume = "idle" /\ pc'.resume = "store"
ResumeStoreStep == pc.resume = "store" /\ pc'.resume = "foreground"

\* C1: when the foreground tracker holds m points and the background task stored
\* k points during the suspension (the store holding just those), the sync on
\* return to the foreground leaves m + k points in memory and a distance summed
\* over all of them.
C1_ReconcileKeepsForegroundPoints ==
    [][ (SyncStep /\ bgAppended > 0 /\ Len(storedPoints) = bgAppended)
        => /\ Len(gpsPoints') = Len(gpsPoints) + bgAppended
           /\ distance' = calculateTotalDistance(gpsPoints') ]_vars

C3_PostHasTwoPoints ==
    request # <<>> => Len(request[1].gps_points) >= 2

\* C3 witness: a POST is in flight.
C3_Witness == request # <<>> /\ pc.save = "post"

\* C4: when the POST is rejected, the state in memory is as it was and the store
\* still holds the session record and the points it held when the stop was requested.
C4_RejectedSaveKeepsStore ==
    [][ PostRejectedStep
        => /\ recordingState' = recordingState
           /\ gpsPoints' = gpsPoints
           /\ distance' = distance
           /\ duration' = duration
           /\ startTimeRef' = startTimeRef
           /\ sessionData' = saveLocals.session
           /\ storedPoints' = saveLocals.backgroundPoints ]_vars

\* C5: when resetRecording completes the controller is idle, memory is empty,
\* distance and duration are 0, the start time is unset and both store records
\* are absent.
C5_DiscardClearsEverything ==
    [][ ResetDoneStep
        => /\ recordingState' = "idle"
           /\ gpsPoints' = <<>>
           /\ distance' = 0
           /\ duration' = 0
           /\ startTimeRef' = Null
           /\ sessionData' = <<>>
           /\ storedPoints' = <<>> ]_vars

\* C6: a start made while the platform refuses the foreground or the background
\* permission ends idle, with no session record and no tracker.
C6_RefusedStartStaysIdle ==
    [][ (StartDoneStep /\ (~permFg \/ ~permBg))
        => /\ recordingState' = "idle"
           /\ sessionData' = <<>>
           /\ ~locationSubscription'
           /\ ~bgRegistered' ]_vars

\* C7: the points of the POST body are the stored sequence read at stop.
C7_SummaryPointsAreStored ==
    (request # <<>> /\ saveLocals.backgroundPoints # <<>>)
        => request[1].gps_points = saveLocals.backgroundPoints

\* C8: the distance of the POST body is the sum over its own points.
C8_SummaryDistanceMatchesPoints ==
    request # <<>>
        => request[1].distance = calculateTotalDistance(request[1].gps_points)

\* C9: the duration of the POST body is floor((stop - start) / 1 s) minus the
\* paused seconds, the pause in progress included, all taken at the tick the save
\* was requested. Stated for the saves requested a whole number of seconds after
\* the press of the pause, the store having recorded the pause at that press, so
\* that the floors of the formula lose nothing.
C9_SummaryDurationAtStop ==
    (/\ request # <<>>
     /\ saveLocals.session # <<>>
     /\ request[1].start_time # Null
     /\ pausedAt # Null
     /\ saveLocals.session[1].lastPauseTime = pausedAt
     /\ (saveLocals.stopTime - pausedAt) % TicksPerSecond = 0)
        => LET body == request[1]
               s == saveLocals.session[1]
               stop == saveLocals.stopTime
               paused == s.pausedDuration + FloorSeconds(stop - s.lastPauseTime)
           IN  body.duration = FloorSeconds(stop - body.start_time) - paused

\* C10: a resume in the very tick of the pause's press leaves the paused duration
\* as it was, in the controller (pausedDurationRef) and in the store
\* (pausedDuration).
C10_ImmediateResumeKeepsPaused ==
    [][ /\ (ResumePressStep /\ pausedAt = now)
           => pausedDurationRef' = pausedDurationRef
        /\ (ResumeStoreStep /\ pausedAt = now /\ sessionData # <<>>)
           => sessionData'[1].pausedDuration = sessionData[1].pausedDuration ]_vars

\* checkExistingSession has read the points of an active session.
RecoverStep == pc.recover = "points" /\ pc'.recover # "points"

\* C11: on relaunch with an active session in the store, the controller enters
\* paused if the stored session is paused and recording otherwise, the distance
\* is the sum over the persisted points, the start time and the paused duration
\* are the stored ones, and the foreground tracker is restarted exactly when the
\* session is not paused; also when no point is persisted yet.
C11_RelaunchRestoresSession ==
    [][ RecoverStep
        => LET session == recoverLocals[1]
           IN  /\ recordingState' = IF session.isPaused THEN "paused" ELSE "recording"
               /\ gpsPoints' = storedPoints
               /\ distance' = calculateTotalDistance(storedPoints)
               /\ startTimeRef' = session.startTime
               /\ pausedDurationRef' = session.pausedDuration
               /\ (pc'.recover = "foreground") = ~session.isPaused ]_vars

\* C12: a handler (start, pause, resume, stop->discard, stop->save) begins only
\* when no handler triggered before it is still awaiting.
C12_HandlersSerialized ==
    [][ Pending' > Pending => Pending = 0 ]_vars

\* C13: while the controller is paused or idle, a fix of the foreground stream
\* changes neither the points in memory nor the distance.
C13_NoFixAfterStop ==
    [][ (/\ recordingState \in {"paused", "idle"}
         /\ \E lat \in FixLatitudes, lon \in FixLongitudes, acc \in FixAccuracies :
               ForegroundFix(lat, lon, acc))
        => gpsPoints' = gpsPoints /\ distance' = distance ]_vars

\* C20: an idle controller has no points in memory and no start time.
C20_IdleIsEmpty ==
    recordingState = "idle" => gpsPoints = <<>> /\ startTimeRef = Null

\* The foreground tracker is subscribed and delivering to the recording controller.
ForegroundAccepting ==
    appState = "active" /\ recordingState = "recording" /\ locationSubscription

\* The background task is registered and finds an active, unpaused session.
BackgroundAccepting ==
    bgRegistered /\ sessionData # <<>> /\ sessionData[1].isActive
                 /\ ~sessionData[1].isPaused

\* C14: the foreground tracker and the background task never both accept fixes
\* for the session at the same time.
C14_ForegroundXorBackground ==
    ~(ForegroundAccepting /\ BackgroundAccepting)

\* Invocation i of the background task writes the points record.
BackgroundWriteStep(i) == bg[i].pc = "write" /\ bg'[i].pc = "idle"

\* C15: the background task appends a fix to the persisted sequence only if the
\* sequence (as the task read it) is empty, or the fix is at least 5 m from its
\* last point with an accuracy unknown or below 30 m.
C15_BackgroundFiltersFixes ==
    [][ \A i \in BgIds :
          (BackgroundWriteStep(i) /\ storedPoints' # bg[i].existingPoints)
          => LET prev == bg[i].existingPoints
                 fix == bg[i].locations[1]
             IN  \/ prev = <<>>
                 \/ AcceptFix(calculateDistance(prev[Len(prev)].latitude,
                                                prev[Len(prev)].longitude,
                                                fix.latitude, fix.longitude),
                              fix.accuracy) ]_vars

\* The foreground callback has just been given a fix, with points accepted before.
LaterFixStep == delivered' # <<>> /\ gpsPoints # <<>>

\* C16: a fix less than 5 m from the last accepted point is rejected, whatever
\* its accuracy.
C16_CloseFixRejected ==
    [][ (LaterFixStep /\ DistanceFromLast(gpsPoints, delivered'[1]) < MinMoveMeters)
        => gpsPoints' = gpsPoints ]_vars

\* C16 witness: a fix of known good accuracy, less than 5 m from the last accepted
\* point, has been delivered and is not in the sequence.
C16_Witness ==
    /\ delivered # <<>> /\ gpsPoints # <<>>
    /\ delivered[1] # gpsPoints[Len(gpsPoints)]
    /\ DistanceFromLast(gpsPoints, delivered[1]) < MinMoveMeters
    /\ delivered[1].accuracy = MaxAccuracyMeters - 1

\* C17: a fix at least 5 m from the last accepted point is rejected when its
\* accuracy is known and 30 m or worse, and appended when its accuracy is unknown
\* or better than 30 m.
C17_AccuracyDecidesFarFix ==
    [][ (LaterFixStep /\ DistanceFromLast(gpsPoints, delivered'[1]) >= MinMoveMeters)
        => IF delivered'[1].accuracy # Null
              /\ delivered'[1].accuracy >= MaxAccuracyMeters
           THEN gpsPoints' = gpsPoints
           ELSE gpsPoints' = Append(gpsPoints, delivered'[1]) ]_vars

\* C17 witness: a fix of unknown accuracy, 5 m or more from the point before it,
\* has been delivered and appended.
C17_Witness ==
    /\ delivered # <<>> /\ Len(gpsPoints) = 2
    /\ delivered[1] = gpsPoints[2]
    /\ delivered[1].accuracy = Null
    /\ DistanceFromLast(<< gpsPoints[1] >>, gpsPoints[2]) >= MinMoveMeters

\* C18: with no point accepted yet, the fix delivered becomes the only point,
\* whatever its accuracy, and the distance stays as it is (0).
C18_FirstFixAccepted ==
    [][ (delivered' # <<>> /\ gpsPoints = <<>>)
        => /\ gpsPoints' = << delivered'[1] >>
           /\ distance' = distance
           /\ distance' = 0 ]_vars

\* C18 witness: a first fix of accuracy 30 m has been delivered and is the only
\* point, at distance 0.
C18_Witness ==
    /\ delivered # <<>> /\ gpsPoints = delivered
    /\ delivered[1].accuracy = MaxAccuracyMeters
    /\ distance = 0

\* C19: a fix the filter rejects leaves the points and the distance unchanged.
C19_RejectedFixChangesNothing ==
    [][ (/\ LaterFixStep
         /\ ~AcceptFix(DistanceFromLast(gpsPoints, delivered'[1]),
                       delivered'[1].accuracy))
        => gpsPoints' = gpsPoints /\ distance' = distance ]_vars

\* C19 witness: a fix 5 m or more away but of accuracy 30 m has been delivered;
\* it is not in the sequence and the distance is still the sum over the sequence.
C19_Witness ==
    /\ delivered # <<>> /\ gpsPoints # <<>>
    /\ delivered[1] # gpsPoints[Len(gpsPoints)]
    /\ DistanceFromLast(gpsPoints, delivered[1]) >= MinMoveMeters
    /\ delivered[1].accuracy = MaxAccuracyMeters
    /\ distance = calculateTotalDistance(gpsPoints)

\* C21: whenever the controller is paused, the session record is marked paused
\* and carries the time of the pause; and a session record marked paused always
\* carries that time. Stated for the states where no handler is in flight, the
\* pause being written to the store one await after the state changes.
C21_PausedIsStoredPaused ==
    /\ (recordingState = "paused" /\ Pending = 0)
          => /\ sessionData # <<>>
             /\ sessionData[1].isPaused
             /\ sessionData[1].lastPauseTime # Null
    /\ (sessionData # <<>> /\ sessionData[1].isPaused)
          => sessionData[1].lastPauseTime # Null

\* s is p, or p with points appended.
Extends(s, p) == Len(s) >= Len(p) /\ SubSeq(s, 1, Len(p)) = p

\* The controller is at the await of start or of stop that removes the points record.
ControllerWipes == pc.start = "background" \/ pc.reset = "stopPoints"
                                          \/ pc.save = "stopPoints"

\* C22: while the controller is not idle, every change of the persisted point
\* sequence either appends to it, or removes it in the controller's start or
\* stop; the background task only ever appends.
C22_StoredPointsAppendOnly ==
    [][ (recordingState # "idle" /\ storedPoints' # storedPoints)
        => \/ Extends(storedPoints', storedPoints)
           \/ (storedPoints' = <<>> /\ ControllerWipes /\ bg' = bg) ]_vars

\* C23: when a start that the platform permits completes, the controller is
\* recording, the session record is that of a fresh session (active, not paused,
\* no paused time, no pause under way) started at the instant kept in memory,
\* the persisted sequence is empty, and memory holds no points and distance 0.
\* (The duration is left out: the interval may have ticked before the start
\* completes.)
C23_StartInitialisesSession ==
    [][ (StartDoneStep /\ permFg /\ permBg)
        => /\ recordingState' = "recording"
           /\ sessionData' # <<>>
           /\ sessionData'[1].isActive
           /\ ~sessionData'[1].isPaused
           /\ sessionData'[1].pausedDuration = 0
           /\ sessionData'[1].lastPauseTime = Null
           /\ sessionData'[1].startTime = startTimeRef'
           /\ storedPoints' = <<>>
           /\ gpsPoints' = <<>>
           /\ distance' = 0 ]_vars

\* C24: the resume of a paused session adds the whole seconds from the stored
\* pause time to now to the stored paused duration, clears the pause time, marks
\* the record not paused, and leaves isActive, activityType, startTime and the
\* persisted sequence as they were.
C24_ResumeUpdatesStore ==
    [][ (ResumeStoreStep /\ sessionData # <<>> /\ sessionData[1].isPaused)
        => LET s == sessionData[1]
               t == sessionData'[1]
           IN  /\ sessionData' # <<>>
               /\ t.pausedDuration
                     = s.pausedDuration + FloorSeconds(now - s.lastPauseTime)
               /\ t.lastPauseTime = Null
               /\ ~t.isPaused
               /\ t.isActive = s.isActive
               /\ t.activityType = s.activityType
               /\ t.startTime = s.startTime
               /\ storedPoints' = storedPoints ]_vars

\* C24 witness: a resume has just been stored after a pause of a second or more.
C24_Witness ==
    /\ pc.resume = "foreground"
    /\ sessionData # <<>>
    /\ ~sessionData[1].isPaused
    /\ sessionData[1].lastPauseTime = Null
    /\ sessionData[1].pausedDuration = 1
    /\ pausedAt = Null

\* 'Voir' is pressed on the 'Succès' alert: the save that succeeded is over.
SaveDoneStep == alert = "success" /\ alert' = "none" /\ ~Relaunched

\* C25: when a save that the API accepted is over, the controller is idle with
\* no points, distance and duration 0 and no start time, the foreground tracker
\* is stopped, the background task is unregistered, both store records are
\* absent, and no further POST is in flight or under way.
C25_SavedSessionIsCleared ==
    [][ SaveDoneStep
        => /\ recordingState' = "idle"
           /\ gpsPoints' = <<>>
           /\ distance' = 0
           /\ duration' = 0
           /\ startTimeRef' = Null
           /\ ~locationSubscription'
           /\ ~bgRegistered'
           /\ sessionData' = <<>>
           /\ storedPoints' = <<>>
           /\ request' = <<>>
           /\ pc'.save = "idle" ]_vars

\* Steps that end a pause, and a resume cut short by the store.
PauseDoneStep == pc.pause = "store" /\ pc'.pause = "idle" /\ ~Relaunched
ResumeAbortStep == pc.resume = "store" /\ pc'.resume = "idle" /\ ~Relaunched

\* C26: a transition whose side effect failed is undone.  A start that ends
\* without the task registered or without a session record ends idle, with no
\* session record and no tracker; a pause that ends with the record not marked
\* paused ends recording, with the tracker on; a resume cut short by the store
\* ends paused, with the tracker off.
C26_FailedTransitionRollsBack ==
    [][ /\ (StartDoneStep /\ (~bgRegistered' \/ sessionData' = <<>>))
           => /\ recordingState' = "idle"
              /\ sessionData' = <<>>
              /\ ~locationSubscription'
        /\ (PauseDoneStep /\ (sessionData' = <<>> \/ ~sessionData'[1].isPaused))
           => /\ recordingState' = "recording"
              /\ locationSubscription'
        /\ ResumeAbortStep
           => /\ recordingState' = "paused"
              /\ ~locationSubscription' ]_vars

\* C27: an invocation of the background task with an error stops nothing and
\* loses nothing: the session record, the persisted sequence, the registration
\* of the task, the controller's state and its points are as they were.
C27_StreamErrorKeepsSession ==
    [][ taskError'
        => /\ sessionData' = sessionData
           /\ storedPoints' = storedPoints
           /\ bgRegistered' = bgRegistered
           /\ recordingState' = recordingState
           /\ gpsPoints' = gpsPoints
           /\ locationSubscription' = locationSubscription ]_vars

\* C27 witness: the task has just been invoked with an error in a recording
\* session that has a point persisted.
C27_Witness ==
    /\ taskError
    /\ recordingState = "recording"
    /\ sessionData # <<>> /\ sessionData[1].isActive
    /\ storedPoints # <<>>

\* The interval that was due has fired.
TickStep ==
    /\ timerRef # Null /\ now >= timerRef
    /\ timerRef' = now + TicksPerSecond
    /\ recordingState' = recordingState

\* C28: a tick of the interval while recording sets the displayed duration to
\* the whole seconds since the start time minus the paused seconds kept in
\* memory; and no step that leaves the controller paused, or idle, changes the
\* displayed duration.
C28_TickComputesDuration ==
    [][ /\ (TickStep /\ recordingState = "recording")
           => duration' = FloorSeconds(now - startTimeRef) - pausedDurationRef
        /\ (recordingState \in {"paused", "idle"} /\ recordingState' = recordingState)
           => duration' = duration ]_vars

\* C28 witness: recording again after a pause of a second, the interval has just
\* fired and shows a second less than the time since the start.
C28_Witness ==
    /\ recordingState = "recording"
    /\ timerRef = now + TicksPerSecond
    /\ pc.resume = "idle"
    /\ pausedDurationRef = 1
    /\ duration = 1
    /\ duration = FloorSeconds(now - startTimeRef) - pausedDurationRef

\* C29: the average speed of the POST body is the quotient of the body's own
\* distance in km by its own duration in hours, and is 0 (with nothing divided
\* by zero) when that duration is 0.
C29_AverageSpeedOfSummary ==
    request # <<>>
        => LET body == request[1]
               speed == body.avg_speed
           IN  /\ speed.den # 0
               /\ body.duration = 0 => speed.num = 0
               /\ body.duration # 0
                     => speed.num * (body.duration * MetersPerKm)
                          = speed.den * (body.distance * SecondsPerHour)

\* C29 witness: a POST is in flight for 8 m covered in 1 s, at 28.8 km/h.
C29_Witness ==
    /\ request # <<>>
    /\ request[1].duration = 1
    /\ request[1].distance = 8
    /\ request[1].avg_speed.num * 10 = 288 * request[1].avg_speed.den

\* The timestamps of a point sequence never go back.
NonDecreasing(points) ==
    \A i \in 1..(Len(points) - 1) : points[i].timestamp <= points[i + 1].timestamp

\* C30: fixes being stamped with the clock at their delivery, the timestamps of
\* the persisted sequence, of the points in memory and of the points of a POST
\* body never go back.
C30_TimestampsNonDecreasing ==
    /\ NonDecreasing(storedPoints)
    /\ NonDecreasing(gpsPoints)
    /\ request # <<>> => NonDecreasing(request[1].gps_points)

\* C31: the distance in memory is the sum of the distances between consecutive
\* points in memory.
C31_DistanceIsSumOfLegs ==
    distance = calculateTotalDistance(gpsPoints)

\* C31 witness: four fixes at the corners of the square, one after the other,
\* are in memory, and the distance is that of the three legs between them.
C31_Witness ==
    /\ Len(gpsPoints) = 4
    /\ \A i \in 1..3 : DistanceFromLast(SubSeq(gpsPoints, 1, i), gpsPoints[i + 1])
                           = PathLegMeters
    /\ gpsPoints[4].latitude # gpsPoints[1].latitude
          \/ gpsPoints[4].longitude # gpsPoints[1].longitude
    /\ distance = 3 * PathLegMeters

\* The points the distance calculator has been applied to: those in memory and
\* the fix just delivered.
Measured == {gpsPoints[i] : i \in 1..Len(gpsPoints)}
                \cup {delivered[i] : i \in 1..Len(delivered)}

BackgroundAppendStep ==
    \E i \in DOMAIN bg : BackgroundWriteStep(i) /\ bg[i].locations # <<>>

\* The pause has completed: the controller is paused, handlePause has returned
\* and the session record is marked paused.
PauseCompleted ==
    /\ recordingState = "paused" /\ pc.pause = "idle"
    /\ sessionData # <<>> /\ sessionData[1].isPaused

\* C34: an invocation of the background task goes on to the points record only
\* for a session record that is present, active and not paused; and no batch is
\* written to the points record once the pause has completed.
C34_NoAppendAfterPause ==
    [][ /\ \A i \in DOMAIN bg :
              (bg[i].pc = "idle" /\ bg'[i].pc = "points") => BackgroundAccepting
        /\ BackgroundAppendStep => ~PauseCompleted ]_vars

\* C35: from the completion of a stop to the next start (the controller idle,
\* no handler in flight) the session record and the points record are absent,
\* whatever invocation of the background task was in flight at the stop.
C35_StoppedStoreStaysEmpty ==
    (recordingState = "idle" /\ Pending = 0)
        => (sessionData = <<>> /\ storedPoints = <<>>)

\* The points of a sequence.
PointsOf(points) == {points[k] : k \in 1..Len(points)}

\* C36: when an invocation of the background task writes its batch, the points
\* record afterwards holds the batch and every point it held before, also when
\* another invocation wrote between this one's read and its write.
C36_NoBatchLost ==
    [][ \A i \in DOMAIN bg :
          (BackgroundWriteStep(i) /\ bg[i].locations # <<>>)
          => /\ PointsOf(bg[i].locations) \subseteq PointsOf(storedPoints')
             /\ PointsOf(storedPoints) \subseteq PointsOf(storedPoints') ]_vars

\* C37: every subscription ever created is the one the controller's ref holds or
\* has been removed: no live subscription exists that the ref does not hold.
C37_SingleSubscription == ~orphanSubscription

\* C38: a sync on return to the foreground never shrinks the track in memory:
\* after syncBackgroundPoints there are at least as many points as before it.
C38_SyncNeverShrinks ==
    [][ SyncStep => Len(gpsPoints') >= Len(gpsPoints) ]_vars

\* handleResume has completed: its startForegroundTracking has returned.
ResumeDoneStep == pc.resume = "foreground" /\ pc'.resume = "idle" /\ ~Relaunched

\* C39: when a resume completes, the controller's accumulated paused duration
\* equals the pausedDuration of the stored session.
C39_PausedDurationMatchesStore ==
    [][ (ResumeDoneStep /\ sessionData' # <<>>)
        => pausedDurationRef' = sessionData'[1].pausedDuration ]_vars

====
